---- MODULE Spec2Model ----
(***************************************************************************)
(* A model of vitables/nodeProperties/attrEditor.py: the validation        *)
(* (checkAttributes) and the commit (setAttributes) of the attributes a    *)
(* user edits in the Properties dialog.                                    *)
(*                                                                         *)
(* Cell texts (the Value column) are sequences of one-character strings,   *)
(* so that parsing, formatting and range checks are computed on the text   *)
(* as the code computes them.  Attribute names and data type tags are only *)
(* compared for equality and are plain strings.                            *)
(***************************************************************************)
EXTENDS Integers, Sequences, FiniteSets, TLC

(***************************************************************************)
(* Text helpers                                                            *)
(***************************************************************************)
DigitSeq == <<"0", "1", "2", "3", "4", "5", "6", "7", "8", "9">>

Digits == {DigitSeq[i] : i \in 1..Len(DigitSeq)}

DigitVal(c) == (CHOOSE i \in 1..Len(DigitSeq) : DigitSeq[i] = c) - 1

DigitChr(n) == DigitSeq[n + 1]

Last(s) == s[Len(s)]

Front(s) == SubSeq(s, 1, Len(s) - 1)

AllDigits(s) == \A i \in 1..Len(s) : s[i] \in Digits

HasSign(s) == s # <<>> /\ s[1] \in {"+", "-"}

Unsigned(s) == IF HasSign(s) THEN Tail(s) ELSE s

IsNegative(s) == s # <<>> /\ s[1] = "-"

\* s[1:-1]
Inner(s) == SubSeq(s, 2, Len(s) - 1)

\* position of the first character of s that is in the set cs, 0 when none
FirstOf(s, cs) ==
    IF \E i \in 1..Len(s) : s[i] \in cs
    THEN CHOOSE i \in 1..Len(s) : s[i] \in cs /\ \A j \in 1..(i - 1) : s[j] \notin cs
    ELSE 0

(***************************************************************************)
(* Arbitrary precision naturals: decimal digits, most significant first,   *)
(* no leading zero.  Python's long and numpy.iinfo are exact, and the      *)
(* 64 bit limits do not fit the checker's integers.                        *)
(***************************************************************************)
\* position of the last character of s that is not in the set cs, 0 when none
LastNotOf(s, cs) ==
    IF \E i \in 1..Len(s) : s[i] \notin cs
    THEN CHOOSE i \in 1..Len(s) :
            s[i] \notin cs /\ \A j \in (i + 1)..Len(s) : s[j] \in cs
    ELSE 0

\* the digits without leading zeros; at least one digit stays
StripZeros(d) ==
    IF FirstOf(d, Digits \ {"0"}) = 0 THEN <<"0">>
    ELSE SubSeq(d, FirstOf(d, Digits \ {"0"}), Len(d))

\* d + 1: the trailing nines turn to zeros and the digit before them steps
Succ(d) ==
    IF LastNotOf(d, {"9"}) = 0 THEN <<"1">> \o [i \in 1..Len(d) |-> "0"]
    ELSE [i \in 1..Len(d) |->
            IF i < LastNotOf(d, {"9"}) THEN d[i]
            ELSE IF i = LastNotOf(d, {"9"}) THEN DigitChr(DigitVal(d[i]) + 1)
            ELSE "0"]

\* lexicographic order on digit texts; a proper prefix is smaller
LexLess(a, b) ==
    \E i \in 1..Len(b) :
        /\ \A j \in 1..(i - 1) : j <= Len(a) /\ a[j] = b[j]
        /\ (i > Len(a) \/ DigitVal(a[i]) < DigitVal(b[i]))

MagLess(a, b) == Len(a) < Len(b) \/ (Len(a) = Len(b) /\ LexLess(a, b))

\* a signed integer is [neg, mag]; zero is never negative
IntLess(x, y) ==
    CASE x.neg /\ ~y.neg -> TRUE
      [] ~x.neg /\ y.neg -> FALSE
      [] ~x.neg /\ ~y.neg -> MagLess(x.mag, y.mag)
      [] OTHER -> MagLess(y.mag, x.mag)

(***************************************************************************)
(* long(str_value), line 149: an optional sign and at least one decimal    *)
(* digit; anything else raises ValueError.  (Surrounding blanks and a      *)
(* trailing L, which long() also takes, are outside the texts modelled.)   *)
(***************************************************************************)
IsIntLiteral(s) == Unsigned(s) # <<>> /\ AllDigits(Unsigned(s))

Signed(neg, mag) == [neg |-> neg /\ mag # <<"0">>, mag |-> mag]

LongValue(s) == Signed(IsNegative(s), StripZeros(Unsigned(s)))

(***************************************************************************)
(* numpy.iinfo(dtypes_map[dtype]), lines 147-148                           *)
(***************************************************************************)
SignedDtypes == {"int8", "int16", "int32", "int64"}

UnsignedDtypes == {"uint8", "uint16", "uint32", "uint64"}

IntDtypes == SignedDtypes \cup UnsignedDtypes

FloatDtypes == {"float32", "float64"}

ComplexDtypes == {"complex64", "complex128"}

\* the limits of each type: -2^(w-1) and 2^(w-1) - 1, or 0 and 2^w - 1
IInfo ==
    [t \in IntDtypes |->
        CASE t = "int8" ->
                [min |-> [neg |-> TRUE, mag |-> <<"1", "2", "8">>],
                 max |-> [neg |-> FALSE, mag |-> <<"1", "2", "7">>]]
          [] t = "int16" ->
                [min |-> [neg |-> TRUE, mag |-> <<"3", "2", "7", "6", "8">>],
                 max |-> [neg |-> FALSE, mag |-> <<"3", "2", "7", "6", "7">>]]
          [] t = "int32" ->
                [min |-> [neg |-> TRUE, mag |-> <<"2", "1", "4", "7", "4", "8", "3", "6", "4", "8">>],
                 max |-> [neg |-> FALSE, mag |-> <<"2", "1", "4", "7", "4", "8", "3", "6", "4", "7">>]]
          [] t = "int64" ->
                [min |-> [neg |-> TRUE, mag |-> <<"9", "2", "2", "3", "3", "7", "2", "0", "3", "6", "8", "5", "4", "7", "7", "5", "8", "0", "8">>],
                 max |-> [neg |-> FALSE, mag |-> <<"9", "2", "2", "3", "3", "7", "2", "0", "3", "6", "8", "5", "4", "7", "7", "5", "8", "0", "7">>]]
          [] t = "uint8" ->
                [min |-> [neg |-> FALSE, mag |-> <<"0">>],
                 max |-> [neg |-> FALSE, mag |-> <<"2", "5", "5">>]]
          [] t = "uint16" ->
                [min |-> [neg |-> FALSE, mag |-> <<"0">>],
                 max |-> [neg |-> FALSE, mag |-> <<"6", "5", "5", "3", "5">>]]
          [] t = "uint32" ->
                [min |-> [neg |-> FALSE, mag |-> <<"0">>],
                 max |-> [neg |-> FALSE, mag |-> <<"4", "2", "9", "4", "9", "6", "7", "2", "9", "5">>]]
          [] t = "uint64" ->
                [min |-> [neg |-> FALSE, mag |-> <<"0">>],
                 max |-> [neg |-> FALSE, mag |-> <<"1", "8", "4", "4", "6", "7", "4", "4", "0", "7", "3", "7", "0", "9", "5", "5", "1", "6", "1", "5">>]]]

IInfoMin(dtype) == IInfo[dtype].min

IInfoMax(dtype) == IInfo[dtype].max

\* the text of a signed integer
IntText(x) == IF x.neg THEN <<"-">> \o x.mag ELSE x.mag

(***************************************************************************)
(* float(str_value), line 145: [sign] digits [. digits] [e [sign] digits], *)
(* or inf, infinity, nan.  The value is kept as sign, decimal exponent of  *)
(* the leading significant digit and the significant digits.  (Blanks and  *)
(* the upper case spellings are outside the texts modelled.)               *)
(***************************************************************************)
InfTexts == {<<"i", "n", "f">>, <<"i", "n", "f", "i", "n", "i", "t", "y">>}

NanText == <<"n", "a", "n">>

ExpoMarks == {"e", "E"}

\* the text before the exponent mark, and the text after it
Mantissa(body) ==
    IF FirstOf(body, ExpoMarks) = 0 THEN body
    ELSE SubSeq(body, 1, FirstOf(body, ExpoMarks) - 1)

Exponent(body) ==
    IF FirstOf(body, ExpoMarks) = 0 THEN <<>>
    ELSE SubSeq(body, FirstOf(body, ExpoMarks) + 1, Len(body))

\* the text before the point, and the text after it
IntPart(mant) ==
    IF FirstOf(mant, {"."}) = 0 THEN mant
    ELSE SubSeq(mant, 1, FirstOf(mant, {"."}) - 1)

FracPart(mant) ==
    IF FirstOf(mant, {"."}) = 0 THEN <<>>
    ELSE SubSeq(mant, FirstOf(mant, {"."}) + 1, Len(mant))

FloatParts(s) ==
    [ip   |-> IntPart(Mantissa(Unsigned(s))),
     fp   |-> FracPart(Mantissa(Unsigned(s))),
     hasE |-> FirstOf(Unsigned(s), ExpoMarks) # 0,
     expo |-> Exponent(Unsigned(s))]

IsDecimal(p) ==
    /\ AllDigits(p.ip) /\ AllDigits(p.fp)
    /\ Len(p.ip) + Len(p.fp) >= 1
    /\ (p.hasE => IsIntLiteral(p.expo))

IsFloatLiteral(s) ==
    Unsigned(s) \in InfTexts \cup {NanText} \/ IsDecimal(FloatParts(s))

\* the number the first n digits of d spell
RECURSIVE DigitsToNat(_, _)
DigitsToNat(d, n) == IF n = 0 THEN 0 ELSE 10 * DigitsToNat(d, n - 1) + DigitVal(d[n])

\* beyond four digits of exponent the value overflows or underflows anyway
ExpoMagnitude(m) == IF Len(m) > 4 THEN 9999 ELSE DigitsToNat(m, Len(m))

ExpoValue(e) ==
    IF e = <<>> THEN 0
    ELSE IF IsNegative(e) THEN -ExpoMagnitude(StripZeros(Unsigned(e)))
    ELSE ExpoMagnitude(StripZeros(Unsigned(e)))

StripTrailingZeros(d) == SubSeq(d, 1, LastNotOf(d, {"0"}))

FloatZero(neg) == [kind |-> "zero", neg |-> neg, exp |-> 0, sig |-> <<>>]

\* the digits all, with the point after the first `point` of them, times 10^expo
Decimal(neg, all, point, expo) ==
    IF FirstOf(all, Digits \ {"0"}) = 0 THEN FloatZero(neg)
    ELSE [kind |-> "num", neg |-> neg,
          exp  |-> point - FirstOf(all, Digits \ {"0"}) + expo,
          sig  |-> StripTrailingZeros(SubSeq(all, FirstOf(all, Digits \ {"0"}), Len(all)))]

DecimalOf(neg, p) == Decimal(neg, p.ip \o p.fp, Len(p.ip), ExpoValue(p.expo))

FloatValue(s) ==
    IF Unsigned(s) = NanText THEN [kind |-> "nan", neg |-> FALSE, exp |-> 0, sig |-> <<>>]
    ELSE IF Unsigned(s) \in InfTexts
    THEN [kind |-> "inf", neg |-> IsNegative(s), exp |-> 0, sig |-> <<>>]
    ELSE DecimalOf(IsNegative(s), FloatParts(s))

(***************************************************************************)
(* numpy.finfo(dtypes_map[dtype]).max, lines 143-144, as the decimal       *)
(* magnitude beyond which float(str_value) compares greater than it.       *)
(* float() rounds to the nearest double, so for float64 that is every text *)
(* of at least 2^1024 - 2^970 (it rounds to inf), and for float32 every    *)
(* text above finfo(float32).max + 2^74 (it rounds to the next double).    *)
(* Leading digits of 2^1024 - 2^970 = 1.797693134862315807937...e308 and   *)
(* the digits of 2^128 - 2^104 + 2^74.                                     *)
(***************************************************************************)
FInfoLimit ==
    [t \in FloatDtypes |->
        IF t = "float64"
        THEN [exp |-> 308,
              sig |-> <<"1", "7", "9", "7", "6", "9", "3", "1", "3", "4",
                        "8", "6", "2", "3", "1", "5", "8", "0", "7", "9",
                        "3", "7", "2", "8", "9", "7", "1", "4", "0", "5">>]
        ELSE [exp |-> 38,
              sig |-> <<"3", "4", "0", "2", "8", "2", "3", "4", "6", "6",
                        "3", "8", "5", "2", "8", "8", "7", "8", "7", "0",
                        "1", "1", "7", "0", "1", "1", "4", "9", "6", "3",
                        "0", "9", "7", "7", "8", "0", "2", "2", "4">>]]

\* |float(str_value)| > finfo(dtype).max
FloatExceeds(v, dtype) ==
    \/ v.kind = "inf"
    \/ /\ v.kind = "num"
       /\ \/ v.exp > FInfoLimit[dtype].exp
          \/ v.exp = FInfoLimit[dtype].exp /\ LexLess(FInfoLimit[dtype].sig, v.sig)

(***************************************************************************)
(* Sentinels.  A text has one-character elements only, so these are no     *)
(* texts: Python's None and the exceptions that leave a function.          *)
(***************************************************************************)
None == <<"None">>

ValueError == <<"ValueError">>

IndexError == <<"IndexError">>

(***************************************************************************)
(* eval(value), lines 70 and 319, on the expressions modelled: a quoted    *)
(* string literal, or a sum or difference of numeric literals.  Any other  *)
(* text modelled (a bare name, a truncated sum, an unbalanced quote, the   *)
(* empty text) makes eval raise.                                           *)
(***************************************************************************)
Quotes == {"'", "\""}

IsPyQuoted(s) ==
    /\ Len(s) >= 2
    /\ s[1] \in Quotes
    /\ Last(s) = s[1]
    /\ \A i \in 2..(Len(s) - 1) : s[i] \notin {s[1], "\\"}

\* a decimal literal; a leading 0 makes an integer literal octal
IsPyNumber(s) ==
    /\ s # <<>>
    /\ ~HasSign(s)
    /\ s \notin InfTexts \cup {NanText}
    /\ IsFloatLiteral(s)
    /\ ((AllDigits(s) /\ Len(s) > 1 /\ s[1] = "0")
            => (\A i \in 1..Len(s) : s[i] \notin {"8", "9"}))

\* the binary operators of s: a sign that follows a digit or a point
BinaryOps(s) ==
    {k \in 2..Len(s) : s[k] \in {"+", "-"} /\ s[k - 1] \in Digits \cup {"."}}

\* every term between two neighbouring cuts is a number, signed or not
TermsAreNumbers(s, cuts) ==
    \A a \in cuts, b \in cuts :
        (a < b /\ \A c \in cuts : ~(a < c /\ c < b))
            => IsPyNumber(Unsigned(SubSeq(s, a + 1, b - 1)))

IsPySum(s) == TermsAreNumbers(s, BinaryOps(s) \cup {0, Len(s) + 1})

EvalRaises(value) == ~(IsPyQuoted(value) \/ IsPySum(value))

(***************************************************************************)
(* checkSyntax(value), lines 60-74.  value[0] is read outside the try, so  *)
(* the IndexError of an empty text leaves the function.                    *)
(***************************************************************************)
checkSyntax(value) ==
    IF value = <<>> THEN "IndexError"
    ELSE IF value[1] \in Quotes THEN "False"
    ELSE IF EvalRaises(value) THEN "False"
    ELSE "True"

(***************************************************************************)
(* formatStrValue(dtype, str_value), lines 77-107                          *)
(***************************************************************************)
TrueTexts == {<<"1">>, <<"T", "R", "U", "E">>, <<"T", "r", "u", "e">>, <<"t", "r", "u", "e">>}

FalseTexts ==
    {<<"0">>, <<"F", "A", "L", "S", "E">>, <<"F", "a", "l", "s", "e">>,
     <<"f", "a", "l", "s", "e">>}

IsParenthesized(s) == s # <<>> /\ s[1] = "(" /\ Last(s) = ")"

\* formatStrValue without the else of line 98: any other text is false
formatStrValue_NoElse(dtype, str_value) ==
    IF dtype = "bool"
    THEN (IF str_value \in TrueTexts THEN <<"1">> ELSE <<"0">>)
    ELSE IF dtype \in ComplexDtypes /\ IsParenthesized(str_value)
    THEN Inner(str_value)
    ELSE str_value

formatStrValue(dtype, str_value) ==
    IF dtype = "bool"
    THEN IF str_value \in TrueTexts THEN <<"1">>
         ELSE IF str_value \in FalseTexts THEN <<"0">>
         ELSE None
    ELSE IF dtype \in ComplexDtypes /\ IsParenthesized(str_value)
    THEN Inner(str_value)
    ELSE str_value

(***************************************************************************)
(* checkOverflow(dtype, str_value), lines 110-154.  float() and long()     *)
(* raise ValueError on a text they cannot parse; nan compares false both   *)
(* ways and passes.                                                        *)
(***************************************************************************)
dtypes_map == IntDtypes \cup FloatDtypes

\* line 151 for an integer
IntOutOfRange(value, dtype) ==
    IntLess(value, IInfoMin(dtype)) \/ IntLess(IInfoMax(dtype), value)

\* checkOverflow without the test of line 151
checkOverflow_NoRangeTest(dtype, str_value) ==
    IF dtype \notin dtypes_map THEN str_value
    ELSE IF dtype \in FloatDtypes
    THEN (IF IsFloatLiteral(str_value) THEN str_value ELSE ValueError)
    ELSE IF IsIntLiteral(str_value) THEN str_value
    ELSE ValueError

checkOverflow(dtype, str_value) ==
    IF dtype \notin dtypes_map THEN str_value
    ELSE IF dtype \in FloatDtypes
    THEN IF ~IsFloatLiteral(str_value) THEN ValueError
         ELSE IF FloatExceeds(FloatValue(str_value), dtype) THEN ValueError
         ELSE str_value
    ELSE IF ~IsIntLiteral(str_value) THEN ValueError
         ELSE IF IntOutOfRange(LongValue(str_value), dtype) THEN ValueError
         ELSE str_value

(***************************************************************************)
(* numpy.array(value).astype(dtype_enc)[()], lines 277 and 322: the text   *)
(* is parsed as a literal of the type, ValueError when it is none.  A      *)
(* complex literal is [real] [+-] [imag j].  Whether a complex literal     *)
(* inside one pair of parentheses converts depends on the interpreter      *)
(* (complex() takes it from Python 2.6 on); parens_ok is that choice.      *)
(***************************************************************************)
IsImagLiteral(s) ==
    /\ s # <<>>
    /\ Last(s) \in {"j", "J"}
    /\ (Front(s) \in {<<>>, <<"+">>, <<"-">>} \/ IsFloatLiteral(Front(s)))

IsComplexLiteral(s) ==
    \/ IsFloatLiteral(s)
    \/ IsImagLiteral(s)
    \/ \E k \in 2..Len(s) :
          /\ s[k] \in {"+", "-"}
          /\ IsFloatLiteral(SubSeq(s, 1, k - 1))
          /\ IsImagLiteral(SubSeq(s, k, Len(s)))

astype(dtype, value, parens_ok) ==
    IF dtype \in IntDtypes
    THEN (IF IsIntLiteral(value) THEN value ELSE ValueError)
    ELSE IF dtype \in FloatDtypes
    THEN (IF IsFloatLiteral(value) THEN value ELSE ValueError)
    ELSE IF dtype \in ComplexDtypes
    THEN (IF \/ IsComplexLiteral(value)
             \/ parens_ok /\ IsParenthesized(value) /\ IsComplexLiteral(Inner(value))
          THEN value ELSE ValueError)
    ELSE value

(***************************************************************************)
(* Bounds and the inputs drawn                                             *)
(***************************************************************************)
\* rows of the user table in the tables of several rows
MaxRows == 3

\* times the user presses OK (checkAttributes calls) in one dialog
MaxChecks == 2

Dtypes ==
    {"bool", "string", "python"} \cup IntDtypes \cup FloatDtypes \cup ComplexDtypes

\* one below the minimum and one above the maximum of an integer type
BelowMin(t) ==
    IF IInfoMin(t).neg THEN <<"-">> \o Succ(IInfoMin(t).mag) ELSE <<"-", "1">>

AboveMax(t) == Succ(IInfoMax(t).mag)

LimitTexts ==
    UNION {{IntText(IInfoMin(t)), IntText(IInfoMax(t)), BelowMin(t), AboveMax(t)} :
             t \in IntDtypes}

OtherTexts ==
    {<<>>, <<"2">>, <<"t", "R", "u", "E">>, <<"q">>,
     <<"1", ".", "5">>, <<"1", "e", "3", "9">>, <<"-", "1", "e", "3", "9">>,
     <<"1", "e", "3", "0", "9">>, <<"n", "a", "n">>, <<"i", "n", "f">>,
     <<"1", "+", "2", "j">>, <<"(", "1", "+", "2", "j", ")">>,
     <<"(", "(", "1", "+", "2", "j", ")", ")">>, <<"(", "1", "+", "2", "j">>,
     <<"(", ")">>,
     <<"'", "q", "'">>, <<"\"", "q", "\"">>, <<"1", "+", "2">>, <<"1", "+">>}

Values == LimitTexts \cup TrueTexts \cup FalseTexts \cup OtherTexts

Row(n, v, t, m) == [name |-> n, value |-> v, dtype |-> t, multidim |-> m]

\* tables of one row: every text in every type, editable or not
OneRowTables == {<<Row("A", v, t, m)>> : v \in Values, t \in Dtypes, m \in BOOLEAN}

\* rows of the tables of several rows: a value that normalization changes,
\* a value out of range and an array row under two names, and rows under a
\* third name and under the empty name
RowSamples ==
    {Row(n, k[1], k[2], k[3]) :
        n \in {"A", "C"},
        k \in {<<<<"t", "r", "u", "e">>, "bool", FALSE>>,
               <<<<"1", "2", "8">>, "int8", FALSE>>,
               <<<<"1", "2", "8">>, "int8", TRUE>>}}
    \cup {Row("B", <<"t", "r", "u", "e">>, "bool", FALSE),
          Row("", <<"t", "r", "u", "e">>, "bool", FALSE),
          Row("", <<"1", "2", "8">>, "int8", TRUE)}

SomeRowTables == UNION {[1..n -> RowSamples] : n \in 1..MaxRows}

\* the Title field of the dialog; None when the node shows none
Titles == {None, <<"t">>}

\* what the node holds when the dialog opens
OldValue == [dtype |-> "string", text |-> <<"o">>]

Stores ==
    UNION {[names -> {OldValue}] : names \in SUBSET {"A", "B", "TITLE"}}

(***************************************************************************)
(* State                                                                   *)
(***************************************************************************)
VARIABLES
    edited_attrs,       \* self.edited_attrs: row i of the sequence is key i - 1
    asi,                \* self.asi: the attributes of the node, name -> value
    complex_parens_ok,  \* the interpreter converts a parenthesized complex text
    results,            \* what each checkAttributes call so far returned
    before,             \* edited_attrs when the latest call started (history)
    asi0,               \* asi when the dialog opened (history)
    pc,                 \* "dialog", or "committed" once setAttributes has run
    del_requests,       \* names setAttributes passed to _f_delAttr
    set_requests,       \* names setAttributes passed to setattr, in order
    reported            \* operations handed to formatExceptionInfo

vars ==
    <<edited_attrs, asi, complex_parens_ok, results, before, asi0, pc,
      del_requests, set_requests, reported>>

(***************************************************************************)
(* AttrEditor.__init__, lines 169-201                                      *)
(***************************************************************************)
AttrEditorInit(user_table, title) ==
    IF title # None
    THEN Append(user_table, Row("TITLE", title, "string", FALSE))
    ELSE user_table

(***************************************************************************)
(* AttrEditor.checkAttributes, lines 209-287.  What it returns is          *)
(* [accepted, error, row, name]: the message is the error with the row     *)
(* number (empty name) or the attribute name (the others).  An exception   *)
(* that leaves the method is error "IndexError", which is no return.       *)
(***************************************************************************)
Accepted == [accepted |-> TRUE, error |-> "None", row |-> 0, name |-> ""]

Rejected(error, row, name) ==
    [accepted |-> FALSE, error |-> error, row |-> row, name |-> name]

Raised(exception) == [accepted |-> FALSE, error |-> exception, row |-> 0, name |-> ""]

\* lines 237-244: the first row with an empty name, 0 when none
EmptyNameRow(attrs) ==
    IF \E i \in 1..Len(attrs) : attrs[i].name = ""
    THEN CHOOSE i \in 1..Len(attrs) :
            attrs[i].name = "" /\ \A j \in 1..(i - 1) : attrs[j].name # ""
    ELSE 0

IsRepeat(attrs, i) == \E j \in 1..(i - 1) : attrs[j].name = attrs[i].name

\* lines 247-255: the first row whose name is already in names_list, 0 when none
RepeatedNameRow(attrs) ==
    IF \E i \in 1..Len(attrs) : IsRepeat(attrs, i)
    THEN CHOOSE i \in 1..Len(attrs) :
            IsRepeat(attrs, i) /\ \A j \in 1..(i - 1) : ~IsRepeat(attrs, j)
    ELSE 0

\* lines 276-277, after checkOverflow has returned or raised
Probed(dtype, checked, parens_ok) ==
    IF checked = ValueError THEN ValueError
    ELSE IF astype(dtype, checked, parens_ok) = ValueError THEN ValueError
    ELSE checked

\* lines 273-277: the try block; the exception it ends with, or the value.
\* checkOverflow raises ValueError and nothing in the block raises IndexError.
TryCoerce(dtype, value, parens_ok) ==
    Probed(dtype, checkOverflow(dtype, value), parens_ok)

\* What lines 259-285 make of one row is [error, value]: error "None" when
\* the row passes, and value what line 285 stores.
Passed(value) == [error |-> "None", value |-> value]

Failed(error, r) == [error |-> error, value |-> r.value]

\* lines 262-265, ok being what checkSyntax returned or raised
SyntaxChecked(r, ok) ==
    IF ok = "IndexError" THEN Failed("IndexError", r)
    ELSE IF ok = "False" THEN Failed("InvalidExpressionSyntax", r)
    ELSE Passed(r.value)

\* lines 278-281, coerced being what the try block ended with
Coerced(r, coerced) ==
    IF coerced = IndexError THEN Failed("OutOfRange", r)
    ELSE IF coerced = ValueError THEN Failed("TypeMismatch", r)
    ELSE Passed(coerced)

\* lines 268-272, value being what formatStrValue returned
Formatted(r, value, parens_ok) ==
    IF value = None THEN Failed("TypeMismatch", r)
    ELSE Coerced(r, TryCoerce(r.dtype, value, parens_ok))

\* lines 259-285 without the test of line 260
CheckRow_NoSkip(r, parens_ok) ==
    IF r.dtype = "python" THEN SyntaxChecked(r, checkSyntax(r.value))
    ELSE Formatted(r, formatStrValue(r.dtype, r.value), parens_ok)

\* lines 259-285 for one row; a multidim row passes with its own value
CheckRow(r, parens_ok) ==
    IF r.multidim THEN Passed(r.value)
    ELSE IF r.dtype = "python" THEN SyntaxChecked(r, checkSyntax(r.value))
    ELSE Formatted(r, formatStrValue(r.dtype, r.value), parens_ok)

\* the first row the loop of line 258 stops at, 0 when it runs to its end
FirstFailedRow(checked) ==
    IF \E i \in 1..Len(checked) : checked[i].error # "None"
    THEN CHOOSE i \in 1..Len(checked) :
            /\ checked[i].error # "None"
            /\ \A j \in 1..(i - 1) : checked[j].error = "None"
    ELSE 0

\* lines 258-287 with a loop that notes the first failure and goes on
StoppedAt_GoesOn(attrs, checked, stop) ==
    [attrs  |-> [i \in 1..Len(attrs) |->
                    IF checked[i].error = "None"
                    THEN [attrs[i] EXCEPT !.value = checked[i].value]
                    ELSE attrs[i]],
     result |-> IF stop = 0 THEN Accepted
                ELSE IF checked[stop].error = "IndexError" THEN Raised("IndexError")
                ELSE Rejected(checked[stop].error, 0, attrs[stop].name)]

\* lines 258-287 with the loop stopping at row stop: line 285 has updated
\* the rows before it
StoppedAt(attrs, checked, stop) ==
    [attrs  |-> [i \in 1..Len(attrs) |->
                    IF stop = 0 \/ i < stop
                    THEN [attrs[i] EXCEPT !.value = checked[i].value]
                    ELSE attrs[i]],
     result |-> IF stop = 0 THEN Accepted
                ELSE IF checked[stop].error = "IndexError" THEN Raised("IndexError")
                ELSE Rejected(checked[stop].error, 0, attrs[stop].name)]

RowsChecked(attrs, checked) == StoppedAt(attrs, checked, FirstFailedRow(checked))

\* lines 258-287: the rows in order, stopping at the first that fails (a row
\* is checked on its own cells only)
CheckRows(attrs, parens_ok) ==
    RowsChecked(attrs, [i \in 1..Len(attrs) |-> CheckRow(attrs[i], parens_ok)])

\* checkAttributes with the repeated name pass before the empty name pass
checkAttributes_RepeatsFirst(attrs, parens_ok) ==
    IF RepeatedNameRow(attrs) # 0
    THEN [attrs |-> attrs,
          result |-> Rejected("DuplicateName", 0, attrs[RepeatedNameRow(attrs)].name)]
    ELSE IF EmptyNameRow(attrs) # 0
    THEN [attrs |-> attrs, result |-> Rejected("EmptyName", EmptyNameRow(attrs), "")]
    ELSE CheckRows(attrs, parens_ok)

checkAttributes(attrs, parens_ok) ==
    IF EmptyNameRow(attrs) # 0
    THEN [attrs |-> attrs, result |-> Rejected("EmptyName", EmptyNameRow(attrs), "")]
    ELSE IF RepeatedNameRow(attrs) # 0
    THEN [attrs |-> attrs,
          result |-> Rejected("DuplicateName", 0, attrs[RepeatedNameRow(attrs)].name)]
    ELSE CheckRows(attrs, parens_ok)

Returns(out) ==
    /\ edited_attrs' = out.attrs
    /\ results' = Append(results, out.result)

CheckAttributes ==
    /\ pc = "dialog"
    /\ Len(results) < MaxChecks
    /\ Returns(checkAttributes(edited_attrs, complex_parens_ok))
    /\ before' = edited_attrs
    /\ UNCHANGED <<asi, complex_parens_ok, asi0, pc, del_requests, set_requests, reported>>

(***************************************************************************)
(* AttrEditor.setAttributes, lines 290-328.  The caller runs it once,      *)
(* after a checkAttributes that accepted.  Which store operations fail is  *)
(* the store's choice: del_fail and set_fail.                              *)
(***************************************************************************)
\* edited_attrs is keyed by row number: no key is a unicode string
has_key(attrs, key) == key.type = "int" /\ key.val \in {i - 1 : i \in DOMAIN attrs}

TitleKey == [type |-> "unicode", val |-> "TITLE"]

\* asi._v_attrnamesuser: the attributes of the node that are not system
\* attributes; TITLE is a system attribute (line 300 adds it to the list)
SysAttrNames == {"TITLE"}

AttrNamesUser(store) == DOMAIN store \ SysAttrNames

\* lines 299-302 adding TITLE whatever the edited rows are
AllAttrs_TitleAlways(attrs, store) == AttrNamesUser(store) \cup {"TITLE"}

\* lines 299-302
AllAttrs(attrs, store) ==
    IF has_key(attrs, TitleKey)
    THEN AttrNamesUser(store) \cup {"TITLE"}
    ELSE AttrNamesUser(store)

\* lines 303-304
EditedAttrsNames(attrs) == {attrs[i].name : i \in DOMAIN attrs}

\* line 305
DeletedAttrs(attrs, store) == AllAttrs(attrs, store) \ EditedAttrsNames(attrs)

\* asi._v_node._f_delAttr(attr) fails on a name the node does not hold
DelFails(store, name, del_fail) == name \notin DOMAIN store \/ name \in del_fail

\* lines 305-309
DeleteLoop(store, names, del_fail) ==
    [store    |-> [n \in DOMAIN store \ {d \in names : ~DelFails(store, d, del_fail)}
                     |-> store[n]],
     deleted  |-> names,
     requests |-> <<>>,
     reported |-> {<<"del", d>> : d \in {x \in names : DelFails(store, x, del_fail)}},
     raised   |-> FALSE]

\* lines 318-322: the value stored, a scalar of the type; the conversion is
\* outside the try of line 325
ConversionRaises(r, parens_ok) ==
    IF r.dtype = "python" THEN EvalRaises(r.value)
    ELSE astype(r.dtype, r.value, parens_ok) = ValueError

ScalarOf(r) == [dtype |-> r.dtype, text |-> r.value]

Put(store, name, value) ==
    [n \in DOMAIN store \cup {name} |-> IF n = name THEN value ELSE store[n]]

\* lines 314-328 for one row
WriteRow(acc, r, fails) ==
    IF fails
    THEN [acc EXCEPT !.requests = Append(@, r.name),
                     !.reported = @ \cup {<<"set", r.name>>}]
    ELSE [acc EXCEPT !.requests = Append(@, r.name),
                     !.store = Put(@, r.name, ScalarOf(r))]

\* lines 311-328 without the try of line 325: the first write that fails ends
\* the loop
RECURSIVE WriteLoop_NoTry(_, _, _, _, _)
WriteLoop_NoTry(acc, attrs, row, set_fail, parens_ok) ==
    IF row > Len(attrs) THEN acc
    ELSE IF attrs[row].multidim THEN WriteLoop_NoTry(acc, attrs, row + 1, set_fail, parens_ok)
    ELSE IF ConversionRaises(attrs[row], parens_ok) THEN [acc EXCEPT !.raised = TRUE]
    ELSE IF row \in set_fail THEN WriteRow(acc, attrs[row], TRUE)
    ELSE WriteLoop_NoTry(WriteRow(acc, attrs[row], FALSE), attrs, row + 1,
                         set_fail, parens_ok)

\* lines 311-328
RECURSIVE WriteLoop(_, _, _, _, _)
WriteLoop(acc, attrs, row, set_fail, parens_ok) ==
    IF row > Len(attrs) THEN acc
    ELSE IF attrs[row].multidim THEN WriteLoop(acc, attrs, row + 1, set_fail, parens_ok)
    ELSE IF ConversionRaises(attrs[row], parens_ok) THEN [acc EXCEPT !.raised = TRUE]
    ELSE WriteLoop(WriteRow(acc, attrs[row], row \in set_fail), attrs, row + 1,
                   set_fail, parens_ok)

setAttributes(attrs, store, del_fail, set_fail, parens_ok) ==
    WriteLoop(DeleteLoop(store, DeletedAttrs(attrs, store), del_fail),
              attrs, 1, set_fail, parens_ok)

ScalarRows(attrs) == {i \in DOMAIN attrs : ~attrs[i].multidim}

Commits(out) ==
    /\ asi' = out.store
    /\ del_requests' = out.deleted
    /\ set_requests' = out.requests
    /\ reported' = out.reported
    /\ pc' = IF out.raised THEN "raised" ELSE "committed"

SetAttributes ==
    /\ pc = "dialog"
    /\ results # <<>>
    /\ Last(results).accepted
    /\ \E del_fail \in SUBSET DeletedAttrs(edited_attrs, asi),
          set_fail \in SUBSET ScalarRows(edited_attrs) :
          Commits(setAttributes(edited_attrs, asi, del_fail, set_fail,
                                complex_parens_ok))
    /\ UNCHANGED <<edited_attrs, complex_parens_ok, results, before, asi0>>

(***************************************************************************)
(* The dialog                                                              *)
(***************************************************************************)
Init ==
    /\ \E user_table \in OneRowTables \cup SomeRowTables, title \in Titles :
          edited_attrs = AttrEditorInit(user_table, title)
    /\ asi \in Stores
    /\ complex_parens_ok \in BOOLEAN
    /\ results = <<>>
    /\ before = edited_attrs
    /\ asi0 = asi
    /\ pc = "dialog"
    /\ del_requests = {}
    /\ set_requests = <<>>
    /\ reported = {}

Next == CheckAttributes \/ SetAttributes

Spec == Init /\ [][Next]_vars

(***************************************************************************)
(* Properties                                                              *)
(***************************************************************************)
Rows(attrs) == 1..Len(attrs)

Called == results # <<>>

\* what the latest checkAttributes call returned
Returned == Last(results)

RowFailures == {"TypeMismatch", "OutOfRange", "InvalidExpressionSyntax"}

NoEmptyName(attrs) == \A i \in Rows(attrs) : attrs[i].name # ""

NoRepeatedName(attrs) ==
    \A i \in Rows(attrs), j \in Rows(attrs) : i # j => attrs[i].name # attrs[j].name

\* the loop of line 258 gets to row k of the set the call started with
Reaches(k) ==
    /\ NoEmptyName(before)
    /\ NoRepeatedName(before)
    /\ \A j \in 1..(k - 1) : CheckRow(before[j], complex_parens_ok).error = "None"

\* the state is the one a first call on a table of one editable row of an
\* integer type t leaves, the row having a name and the dialog no title
OneIntRow(t) ==
    /\ Len(results) = 1
    /\ Len(before) = 1
    /\ before[1].name # ""
    /\ ~before[1].multidim
    /\ before[1].dtype = t

\* C1: for each of the eight integer types, a row holding the exact minimum
\* or maximum of its type is accepted, (True, None), and a row holding
\* max + 1 or min - 1 is rejected as out of range, not as a type mismatch.
C1_LimitsAcceptedBeyondOutOfRange ==
    \A t \in IntDtypes :
        OneIntRow(t) =>
            /\ before[1].value \in {IntText(IInfoMin(t)), IntText(IInfoMax(t))}
                  => results[1] = Accepted
            /\ before[1].value \in {BelowMin(t), AboveMax(t)}
                  => results[1] = Rejected("OutOfRange", 0, before[1].name)

\* C2 as stated: setAttributes requests the deletion of exactly the user
\* attribute names of the store, plus TITLE when the store has a title,
\* minus the names of the edited rows.
C2_DeletesTitleToo ==
    pc = "committed" =>
        del_requests = DOMAIN asi0 \ {edited_attrs[i].name : i \in Rows(edited_attrs)}

\* the store held A, B and TITLE, the rows edited are A and C, none of them
\* an array row, and the commit has run
C2_Scenario ==
    /\ pc = "committed"
    /\ DOMAIN asi0 = {"A", "B", "TITLE"}
    /\ {edited_attrs[i].name : i \in Rows(edited_attrs)} = {"A", "C"}
    /\ \A i \in Rows(edited_attrs) : ~edited_attrs[i].multidim

\* C2 amended: setAttributes requests the deletion of exactly the user
\* attribute names of the store minus the names of the edited rows; TITLE is
\* never among them.  For a store holding A, B and TITLE and the edited rows
\* A and C, B alone is requested and TITLE stays as it was, and when no store
\* operation fails B is gone, A holds its new value and C exists.
C2_DeletesUserAttrsOnly ==
    /\ pc = "committed" =>
          /\ del_requests =
                (DOMAIN asi0 \ {"TITLE"}) \ {edited_attrs[i].name : i \in Rows(edited_attrs)}
          /\ "TITLE" \notin del_requests
    /\ C2_Scenario =>
          /\ del_requests = {"B"}
          /\ "TITLE" \in DOMAIN asi /\ asi["TITLE"] = asi0["TITLE"]
          /\ reported = {} =>
                /\ DOMAIN asi = {"A", "C", "TITLE"}
                /\ \A i \in Rows(edited_attrs) :
                      asi[edited_attrs[i].name] =
                          [dtype |-> edited_attrs[i].dtype, text |-> edited_attrs[i].value]

C2_Witness == C2_Scenario /\ reported = {} /\ "B" \notin DOMAIN asi

\* C3: every checkAttributes call ends by returning an (accepted, message)
\* pair; no exception leaves it, a python row with an empty value included.
C3_NeverRaises == \A n \in 1..Len(results) : results[n].error # "IndexError"

\* the value of a row is inside the range of its integer or float type
C4_InRange(r) ==
    /\ r.dtype \in IntDtypes =>
          /\ IsIntLiteral(r.value)
          /\ ~IntLess(LongValue(r.value), IInfoMin(r.dtype))
          /\ ~IntLess(IInfoMax(r.dtype), LongValue(r.value))
    /\ r.dtype \in FloatDtypes =>
          /\ IsFloatLiteral(r.value)
          /\ ~FloatExceeds(FloatValue(r.value), r.dtype)

C5_ToDelete ==
    (DOMAIN asi0 \ {"TITLE"}) \ {edited_attrs[i].name : i \in Rows(edited_attrs)}

C5_ToWrite == {i \in Rows(edited_attrs) : ~edited_attrs[i].multidim}

\* C5: setAttributes is best effort.  Whatever store operations fail, every
\* name of the deletion set gets its delete request and every row that is no
\* array row its write request, each failure is handed to the error
\* reporter, and the deletes and writes that succeeded stay in the store.
C5_BestEffort ==
    pc = "committed" =>
        /\ del_requests = C5_ToDelete
        /\ {set_requests[n] : n \in 1..Len(set_requests)}
              = {edited_attrs[i].name : i \in C5_ToWrite}
        /\ Len(set_requests) = Cardinality(C5_ToWrite)
        /\ \A d \in C5_ToDelete :
              IF <<"del", d>> \in reported
              THEN d \in DOMAIN asi /\ asi[d] = asi0[d]
              ELSE d \notin DOMAIN asi
        /\ \A i \in C5_ToWrite :
              IF <<"set", edited_attrs[i].name>> \in reported
              THEN edited_attrs[i].name \in DOMAIN asi
                      <=> edited_attrs[i].name \in DOMAIN asi0
              ELSE /\ edited_attrs[i].name \in DOMAIN asi
                   /\ asi[edited_attrs[i].name] =
                         [dtype |-> edited_attrs[i].dtype, text |-> edited_attrs[i].value]

\* a delete and a write have failed, and a write before and a write after
\* the failed write went through
C5_Witness ==
    /\ pc = "committed"
    /\ \E d \in C5_ToDelete : <<"del", d>> \in reported
    /\ \E d \in C5_ToDelete : d \notin DOMAIN asi
    /\ \E i \in C5_ToWrite, j \in C5_ToWrite :
          /\ i < j
          /\ <<"set", edited_attrs[i].name>> \in reported
          /\ <<"set", edited_attrs[j].name>> \notin reported
          /\ edited_attrs[j].name \notin DOMAIN asi0
          /\ edited_attrs[j].name \in DOMAIN asi

\* the set the latest call started with, the cells of its array rows blanked
C6_Blanked ==
    [i \in Rows(before) |->
        IF before[i].multidim
        THEN [before[i] EXCEPT !.value = <<>>, !.dtype = "string"]
        ELSE before[i]]

\* C6: an array row goes through both operations untouched.  checkAttributes
\* leaves the row as it was and returns what it returns when the value and
\* the type of the array rows are anything else, and setAttributes neither
\* writes nor deletes the name of an array row of the edited set.
C6_MultidimUntouched ==
    /\ Called =>
          /\ \A i \in Rows(before) : before[i].multidim => edited_attrs[i] = before[i]
          /\ Returned = checkAttributes(C6_Blanked, complex_parens_ok).result
    /\ pc = "committed" =>
          \A i \in Rows(edited_attrs) :
              edited_attrs[i].multidim =>
                  /\ edited_attrs[i].name \notin del_requests
                  /\ \A n \in 1..Len(set_requests) : set_requests[n] # edited_attrs[i].name
                  /\ edited_attrs[i].name \in DOMAIN asi
                        <=> edited_attrs[i].name \in DOMAIN asi0
                  /\ edited_attrs[i].name \in DOMAIN asi
                        => asi[edited_attrs[i].name] = asi0[edited_attrs[i].name]

\* an array row whose cells no scalar check would pass, and whose name the
\* store holds, has been through an accepting check and the commit
C6_Witness ==
    /\ pc = "committed"
    /\ \E i \in Rows(edited_attrs) :
          /\ edited_attrs[i].multidim
          /\ edited_attrs[i].dtype = "int8"
          /\ edited_attrs[i].value = <<"1", "2", "8">>
          /\ edited_attrs[i].name \in DOMAIN asi

C7_TrueTexts ==
    {<<"1">>, <<"T", "R", "U", "E">>, <<"T", "r", "u", "e">>, <<"t", "r", "u", "e">>}

C7_FalseTexts ==
    {<<"0">>, <<"F", "A", "L", "S", "E">>, <<"F", "a", "l", "s", "e">>,
     <<"f", "a", "l", "s", "e">>}

\* C7: for a bool row the texts 1, TRUE, True, true normalize to "1" and
\* 0, FALSE, False, false to "0"; for any other text formatStrValue returns
\* the failure sentinel and checkAttributes, once it gets to the row, fails
\* with the type mismatch message naming it.
C7_BoolTexts ==
    Called =>
        \A i \in Rows(before) :
            (before[i].dtype = "bool" /\ ~before[i].multidim) =>
                /\ before[i].value \in C7_TrueTexts =>
                      /\ formatStrValue("bool", before[i].value) = <<"1">>
                      /\ Reaches(i) =>
                            /\ edited_attrs[i].value = <<"1">>
                            /\ Returned.name # before[i].name
                /\ before[i].value \in C7_FalseTexts =>
                      /\ formatStrValue("bool", before[i].value) = <<"0">>
                      /\ Reaches(i) =>
                            /\ edited_attrs[i].value = <<"0">>
                            /\ Returned.name # before[i].name
                /\ before[i].value \notin C7_TrueTexts \cup C7_FalseTexts =>
                      /\ formatStrValue("bool", before[i].value) = None
                      /\ Reaches(i) =>
                            /\ Returned = Rejected("TypeMismatch", 0, before[i].name)
                            /\ edited_attrs[i].value = before[i].value

C7_Witness ==
    /\ Called
    /\ \E i \in Rows(before) :
          /\ before[i].dtype = "bool" /\ ~before[i].multidim
          /\ before[i].value = <<"t", "R", "u", "E">>
          /\ Returned = Rejected("TypeMismatch", 0, before[i].name)

\* C8: validation is idempotent: a checkAttributes call on a set the call
\* before it accepted accepts again and leaves every row as it was, for
\* every type, complex rows typed with several pairs of parentheses included.
C8_Idempotent ==
    (Len(results) >= 2 /\ results[Len(results) - 1].accepted) =>
        /\ Returned.accepted
        /\ edited_attrs = before

\* the row of the set the call started with that the duplicate name pass
\* stops at: the first whose name an earlier row has
C9_FirstRepeat(i) ==
    /\ \E j \in 1..(i - 1) : before[j].name = before[i].name
    /\ \A k \in 1..(i - 1) : \A j \in 1..(k - 1) : before[j].name # before[k].name

\* C9: the three checks run as whole passes, in order, stopping at the first
\* failure.  A set with an empty name fails with the empty name message and
\* the 1-based number of the first such row, whatever else is wrong with
\* earlier rows; else a set with a repeated name fails with the duplicate
\* message naming the first repeated name; a type, range or syntax failure is
\* reported only when no name is empty or repeated, and is the failure of
\* the first offending row.
C9_PassOrder ==
    Called =>
        /\ \A i \in Rows(before) :
              (before[i].name = "" /\ \A j \in 1..(i - 1) : before[j].name # "")
                  => Returned = Rejected("EmptyName", i, "")
        /\ \A i \in Rows(before) :
              (NoEmptyName(before) /\ C9_FirstRepeat(i))
                  => Returned = Rejected("DuplicateName", 0, before[i].name)
        /\ Returned.error \in RowFailures =>
              /\ NoEmptyName(before)
              /\ NoRepeatedName(before)
              /\ \E k \in Rows(before) :
                    /\ before[k].name = Returned.name
                    /\ CheckRow(before[k], complex_parens_ok).error = Returned.error
                    /\ \A j \in 1..(k - 1) :
                          CheckRow(before[j], complex_parens_ok).error = "None"

\* the first row has a value out of range and the name of the second, and
\* the third row has no name: the empty name of row 3 is what is reported
C9_Witness ==
    /\ Called
    /\ Len(before) >= 3
    /\ before[1].name = before[2].name
    /\ before[1].dtype = "int8" /\ ~before[1].multidim
    /\ before[1].value = <<"1", "2", "8">>
    /\ before[3].name = ""
    /\ Returned = Rejected("EmptyName", 3, "")

\* the normalized value of a row that passes
C10_Normalized(r) ==
    IF r.multidim THEN r.value
    ELSE IF r.dtype = "bool"
    THEN (IF r.value \in C7_TrueTexts THEN <<"1">> ELSE <<"0">>)
    ELSE IF r.dtype \in ComplexDtypes /\ r.value # <<>>
            /\ r.value[1] = "(" /\ r.value[Len(r.value)] = ")"
    THEN SubSeq(r.value, 2, Len(r.value) - 1)
    ELSE r.value

\* the call stopped at row k: the rows from k on are as they were, and the
\* rows before k differ at most in their value, which is the normalized one
C10_StoppedAt(k) ==
    /\ \A i \in k..Len(before) : edited_attrs[i] = before[i]
    /\ \A i \in 1..(k - 1) :
          edited_attrs[i] = [before[i] EXCEPT !.value = C10_Normalized(before[i])]

\* C10: a checkAttributes that fails changes the edited set within bounds.
\* Failing on an empty or a repeated name it changes nothing; failing at row
\* k of the row pass it leaves row k and the later rows with their raw
\* values and every name, type and array flag as they were, the rows before
\* k holding their normalized values.  And no checkAttributes call changes
\* the attribute store.
C10_FailureFrame ==
    /\ (Called /\ ~Returned.accepted) =>
          /\ Len(edited_attrs) = Len(before)
          /\ Returned.error \in {"EmptyName", "DuplicateName"} => edited_attrs = before
          /\ Returned.error \in RowFailures =>
                \E k \in Rows(before) :
                    before[k].name = Returned.name /\ C10_StoppedAt(k)
          /\ Returned.error = "IndexError" =>
                \E k \in Rows(before) :
                    /\ before[k].dtype = "python" /\ before[k].value = <<>>
                    /\ C10_StoppedAt(k)
    /\ pc = "dialog" => asi = asi0

\* the call failed at row 2, after it normalized row 1, and row 3 holds a
\* raw value that normalization would change
C10_Witness ==
    /\ Called /\ Len(before) >= 3
    /\ Returned.error = "TypeMismatch" /\ Returned.name = before[2].name
    /\ before[1].value = <<"t", "r", "u", "e">> /\ edited_attrs[1].value = <<"1">>
    /\ before[3].dtype = "bool" /\ ~before[3].multidim
    /\ edited_attrs[3].value = <<"t", "r", "u", "e">>

====
